---- MODULE Spec2Model ----
(***************************************************************************)
(* Render-loop controller (createGPURenderer) and event facade             *)
(* (create6roEngine) of 6ro-m, modelled as one state machine.              *)
(*                                                                         *)
(* Units and encodings                                                     *)
(*   - times (performance.now()) are integer milliseconds;                 *)
(*   - state.speed is in degrees/second, state.angle is kept in            *)
(*     millidegrees, so that  angle += speed * (delta / 1000)  becomes the *)
(*     exact integer update  angle' = angle + speed * delta;               *)
(*   - state.fps = 1000 / delta is kept as the fraction num/den, with      *)
(*     den = 0 standing for the IEEE results Infinity (num # 0) and NaN    *)
(*     (num = 0) of the JavaScript division;                               *)
(*   - GPU objects (textures, devices, canvases and their contexts) and    *)
(*     requestAnimationFrame handles are identified by small integers.     *)
(***************************************************************************)
EXTENDS Integers, Sequences, FiniteSets, Bags, TLC

VARIABLES
    ctor,            \* createGPURenderer promise: "pending", "ok", "rejected"
    config,          \* the GPURendererConfig / caller of createGPURenderer
    now,             \* performance.now()
    speed,           \* state.speed
    angle,           \* state.angle (millidegrees)
    isRunning,       \* state.isRunning
    animationId,     \* state.animationId (Null or a handle)
    lastFrameTime,   \* state.lastFrameTime
    fps,             \* state.fps (fraction)
    texture,         \* state.texture
    device,          \* state.device
    context,         \* state.context (the context of that canvas)
    canvas,          \* state.canvas
    scheduled,       \* the host's map of pending animation frame callbacks
    configuredWith,  \* per canvas: the device its context was configured with
    texturesCreated, \* number of GPUTexture objects created so far
    pendingImage,    \* the updateImage calls suspended in loadImageBitmap, in
                     \* the order they were issued; history: for each, whether
                     \* a call issued after it has resolved already
    pendingCanvas,   \* bag of the updateCanvas calls suspended in initWebGPU
    engineSpeed,     \* engineState.speed of the facade
    installed,       \* presentationModules.length of the facade
    snapshot,        \* the object a caller got from getEngineState()
    events,          \* history: the events dispatched through the facade
    tracked,         \* history: only frames and setSpeed since construction
    startTime,       \* history: lastFrameTime recorded at construction
    log,             \* history: per frame tick, the speed used and the time read
    op               \* history: the operation that produced this state

vars == <<ctor, config, now, speed, angle, isRunning, animationId,
          lastFrameTime, fps, texture, device, context, canvas, scheduled,
          configuredWith, texturesCreated, pendingImage,
          pendingCanvas, engineSpeed, installed, snapshot, events, tracked,
          startTime, log, op>>

\* The fields of GPURendererState.
stateVars == <<speed, angle, isRunning, animationId, lastFrameTime, fps,
               texture, device, context, canvas>>

\* The host's GPU and scheduling state outside GPURendererState.
hostVars == <<scheduled, configuredWith, texturesCreated>>

engineVars == <<engineSpeed, installed, snapshot, events>>

histVars == <<tracked, startTime, log>>

----------------------------------------------------------------------------
\* Bounds of the model.

MaxTime == 3000

MaxTicks == 3

MaxTextures == 3

MaxImageCalls == 2

MaxCanvasCalls == 2

MaxEvents == 2

MaxHandles == 3

MaxSources == 2

\* Amounts by which the clock advances between two tasks.
ClockSteps == {1000}

\* Values callers pass to setSpeed and as config.speed.
Speeds == {1, 300}

\* Canvas 1 is config.canvas.
Canvases == {1, 2}

\* The canvases callers pass to updateCanvas: a new one the first time, the
\* current one from then on.
NewCanvases == {2}

\* Payloads of the changeSpeed events the keyboard source dispatches.
SpeedDeltas == {10, -10}

----------------------------------------------------------------------------
\* Program constants.

Null == 0

DefaultSpeed == 1

\* An object reference held by a caller of the facade: ref tells which object
\* it points to ("engine" is engineState itself, "copy" an object of its own
\* with the field speed), "none" that the caller holds nothing yet.
NoSnapshot == [ref |-> "none", speed |-> 0]

\* The values a caller writes into the object it got.
SnapshotWrites == {0}

EngineInitialSpeed == 300

Handles == 1..MaxHandles

\* 1000 / delta as JavaScript computes it (Infinity when delta = 0).
FpsOf(delta) == [num |-> 1000, den |-> delta]

ZeroFps == [num |-> 0, den |-> 1]

\* Number.isFinite of a quotient: neither Infinity nor NaN.
IsFinite(f) == f.den # 0

\* A variant that keeps the angle within one turn.
NextAngle_Mod360(a, s, delta) == (a + s * delta) % (360 * 1000)

\* state.angle += state.speed * (delta / 1000), in millidegrees.
NextAngle(a, s, delta) == a + s * delta

\* requestAnimationFrame: the handle of the new callback differs from every
\* pending one.  (A handle whose callback has run or was cancelled is held by
\* nothing but state.animationId, which every caller overwrites with the new
\* handle, so its name is used again.)
FreshHandle(pending) == CHOOSE h \in Handles :
                           /\ h \notin pending
                           /\ \A g \in Handles : g \notin pending => h <= g

CanSchedule(pending) == \E h \in Handles : h \notin pending

\* adapter.requestDevice() in initWebGPU(cv): a new device object, distinct
\* from state.device (device 1) and from the devices of the other canvases.
\* (The device cv's context was configured with before is referenced by
\* nothing once the context is configured again, so its name is used again.)
NewDevice(cv) == cv + 1

Op(name, arg, gpu) == [name |-> name, arg |-> arg, gpu |-> gpu]

\* The history of frame ticks is kept while only frames and setSpeed ran.
Untrack == /\ tracked' = FALSE
           /\ log' = <<>>
           /\ UNCHANGED startTime

----------------------------------------------------------------------------
\* Construction.

Configs == [owner : {"engine"}, hasSpeed : {FALSE}, speed : {DefaultSpeed}]
             \cup [owner : {"direct"}, hasSpeed : {FALSE}, speed : {DefaultSpeed}]
             \cup [owner : {"direct"}, hasSpeed : {TRUE}, speed : Speeds]

Init ==
    /\ ctor = "pending"
    /\ config \in Configs
    /\ now = 0
    /\ speed = DefaultSpeed
    /\ angle = 0
    /\ isRunning = FALSE
    /\ animationId = Null
    /\ lastFrameTime = 0
    /\ fps = ZeroFps
    /\ texture = Null
    /\ device = Null
    /\ context = Null
    /\ canvas = Null
    /\ scheduled = {}
    /\ configuredWith = [c \in Canvases |-> Null]
    /\ texturesCreated = 0
    /\ pendingImage = <<>>
    /\ pendingCanvas = EmptyBag
    /\ engineSpeed = EngineInitialSpeed
    /\ installed = 0
    /\ snapshot = NoSnapshot
    /\ events = <<>>
    /\ tracked = FALSE
    /\ startTime = 0
    /\ log = <<>>
    /\ op = Op("init", 0, {})

\* createGPURenderer resolves: state is built, the loop is started.
CreateOk ==
    /\ ctor = "pending"
    /\ ctor' = "ok"
    /\ speed' = (IF config.hasSpeed THEN config.speed ELSE DefaultSpeed)
    /\ angle' = 0
    /\ isRunning' = TRUE
    /\ animationId' = 1
    /\ scheduled' = {1}
    /\ lastFrameTime' = now
    /\ fps' = ZeroFps
    /\ texture' = 1
    /\ texturesCreated' = 1
    /\ device' = 1
    /\ context' = 1
    /\ canvas' = 1
    /\ configuredWith' = [configuredWith EXCEPT ![1] = 1]
    /\ tracked' = TRUE
    /\ startTime' = now
    /\ log' = <<>>
    /\ op' = Op("create", 0, {})
    /\ UNCHANGED <<config, now, pendingImage, pendingCanvas, engineVars>>

\* A variant that starts the loop before the image has loaded.
CreateReject_StartsLoop(why) ==
    /\ ctor = "pending"
    /\ ctor' = "rejected"
    /\ configuredWith' = (IF why = "image"
                          THEN [configuredWith EXCEPT ![1] = 1]
                          ELSE configuredWith)
    /\ isRunning' = (why = "image")
    /\ animationId' = (IF why = "image" THEN 1 ELSE Null)
    /\ scheduled' = (IF why = "image" THEN {1} ELSE {})
    /\ op' = Op("createReject", IF why = "image" THEN 1 ELSE 0, {})
    /\ UNCHANGED <<config, now, speed, angle, lastFrameTime, fps, texture,
                   device, context, canvas, texturesCreated, pendingImage,
                   pendingCanvas, engineVars, histVars>>

\* createGPURenderer rejects: initWebGPU returned Err (why = "init": no
\* navigator.gpu, no adapter, no context), or initWebGPU configured the
\* canvas and loadImageBitmap then rejected (why = "image").  Either way it
\* throws before state is built.
CreateReject(why) ==
    /\ ctor = "pending"
    /\ ctor' = "rejected"
    /\ configuredWith' = (IF why = "image"
                          THEN [configuredWith EXCEPT ![1] = 1]
                          ELSE configuredWith)
    /\ op' = Op("createReject", IF why = "image" THEN 1 ELSE 0, {})
    /\ UNCHANGED <<config, now, stateVars, scheduled, texturesCreated,
                   pendingImage, pendingCanvas, engineVars, histVars>>

----------------------------------------------------------------------------
\* The clock.

AdvanceClock(d) ==
    /\ now + d <= MaxTime
    /\ now' = now + d
    /\ op' = Op("clock", 0, {})
    /\ UNCHANGED <<ctor, config, stateVars, hostVars, pendingImage,
                   pendingCanvas, engineVars, histVars>>

----------------------------------------------------------------------------
\* The frame callback.

\* frame(), invoked by the host for the pending callback h.  fail says where
\* the body throws: "none", "acquire" (getCurrentTexture) or "submit".
Frame(h, fail) ==
    /\ ctor = "ok"
    /\ h \in scheduled
    /\ IF ~isRunning
       THEN /\ fail = "none"
            /\ scheduled' = scheduled \ {h}
            /\ op' = Op("frame", 0, {})
            /\ UNCHANGED <<stateVars, histVars>>
       ELSE LET delta == now - lastFrameTime IN
            /\ fps' = FpsOf(delta)
            /\ lastFrameTime' = now
            /\ angle' = NextAngle(angle, speed, delta)
            /\ IF tracked /\ Len(log) < MaxTicks
               THEN /\ log' = Append(log, [speed |-> speed, now |-> now])
                    /\ UNCHANGED <<tracked, startTime>>
               ELSE Untrack
            /\ CASE fail = "none" ->
                      /\ animationId' = FreshHandle(scheduled \ {h})
                      /\ scheduled' = (scheduled \ {h})
                                         \cup {FreshHandle(scheduled \ {h})}
                      /\ op' = Op("frame", 0, {"writeBuffer", "draw", "submit"})
                 [] fail = "acquire" ->
                      /\ scheduled' = scheduled \ {h}
                      /\ UNCHANGED animationId
                      /\ op' = Op("frameThrow", 0, {"writeBuffer"})
                 [] fail = "submit" ->
                      /\ scheduled' = scheduled \ {h}
                      /\ UNCHANGED animationId
                      /\ op' = Op("frameThrow", 0, {"writeBuffer", "draw"})
            /\ UNCHANGED <<speed, isRunning, texture, device, context, canvas>>
    /\ UNCHANGED <<ctor, config, now, configuredWith, texturesCreated,
                   pendingImage, pendingCanvas, engineVars>>

----------------------------------------------------------------------------
\* The controller.

\* The owner of the controller can call it: the facade keeps the promise of
\* createGPURenderer to itself and calls nothing on it.
Callable == ctor = "ok" /\ config.owner = "direct"

SetSpeed(v) ==
    /\ Callable
    /\ speed' = v
    /\ op' = Op("setSpeed", 0, {})
    /\ UNCHANGED <<ctor, config, now, angle, isRunning, animationId,
                   lastFrameTime, fps, texture, device, context, canvas,
                   hostVars, pendingImage, pendingCanvas, engineVars, histVars>>

\* A variant that cancels the callback and leaves the flag alone.
StopBody_KeepsFlag ==
    /\ UNCHANGED isRunning
    /\ IF animationId # Null
       THEN /\ scheduled' = scheduled \ {animationId}
            /\ animationId' = Null
       ELSE UNCHANGED <<scheduled, animationId>>

\* A variant that clears the flag and leaves the callback with the host.
StopBody_NoCancel ==
    /\ isRunning' = FALSE
    /\ animationId' = Null
    /\ UNCHANGED scheduled

\* A variant that flips the flag.
StopBody_Toggle ==
    /\ isRunning' = ~isRunning
    /\ IF animationId # Null
       THEN /\ scheduled' = scheduled \ {animationId}
            /\ animationId' = Null
       ELSE UNCHANGED <<scheduled, animationId>>

\* The body of controller.stop().
StopBody ==
    /\ isRunning' = FALSE
    /\ IF animationId # Null
       THEN /\ scheduled' = scheduled \ {animationId}
            /\ animationId' = Null
       ELSE UNCHANGED <<scheduled, animationId>>

Stop ==
    /\ Callable
    /\ StopBody
    /\ op' = Op("stop", IF op.name = "stop" THEN 2
                         ELSE IF animationId \in scheduled THEN 1 ELSE 0, {})
    /\ Untrack
    /\ UNCHANGED <<ctor, config, now, speed, angle, lastFrameTime, fps,
                   texture, device, context, canvas, configuredWith,
                   texturesCreated, pendingImage, pendingCanvas, engineVars>>

\* controller.isRunning() and controller.getFps().
IsRunning == isRunning

GetFps == fps

\* The textures destroy() was called on: the source has no such call.
DestroyedTextures == {}

\* The textures created and not destroyed.
LiveTextures == (1..texturesCreated) \ DestroyedTextures

\* updateImage up to its first await.
UpdateImageCall ==
    /\ Callable
    /\ Len(pendingImage) < MaxImageCalls
    /\ texturesCreated + Len(pendingImage) < MaxTextures
    /\ pendingImage' = Append(pendingImage, FALSE)
    /\ op' = Op("updateImageCall", 0, {})
    /\ Untrack
    /\ UNCHANGED <<ctor, config, now, stateVars, hostVars, pendingCanvas,
                   engineVars>>

\* The suspended calls once call i has left with its texture assigned: the
\* calls issued before it have now been overtaken.
Resolved(pending, i) ==
    [j \in 1..(Len(pending) - 1) |-> IF j < i THEN TRUE ELSE pending[j + 1]]

\* The suspended calls once call i has left with an error.
Rejected(pending, i) ==
    [j \in 1..(Len(pending) - 1) |->
        IF j < i THEN pending[j] ELSE pending[j + 1]]

\* A variant in which the call issued last wins: a call that was overtaken
\* drops its image.
UpdateImageOk_LastCalledWins(i) ==
    /\ ctor = "ok"
    /\ i \in 1..Len(pendingImage)
    /\ pendingImage' = Resolved(pendingImage, i)
    /\ IF pendingImage[i]
         THEN UNCHANGED <<texturesCreated, texture, angle>>
         ELSE /\ texturesCreated' = texturesCreated + 1
              /\ texture' = texturesCreated + 1
              /\ angle' = 0
    /\ op' = Op("updateImageOk", (IF isRunning THEN 1 ELSE 0)
                                   + (IF pendingImage[i] THEN 2 ELSE 0), {})
    /\ Untrack
    /\ UNCHANGED <<ctor, config, now, speed, isRunning, animationId,
                   lastFrameTime, fps, device, context, canvas, scheduled,
                   configuredWith, pendingCanvas, engineVars>>

\* A variant that swaps the texture in and keeps the angle.
UpdateImageOk_NoReset(i) ==
    /\ ctor = "ok"
    /\ i \in 1..Len(pendingImage)
    /\ pendingImage' = Resolved(pendingImage, i)
    /\ texturesCreated' = texturesCreated + 1
    /\ texture' = texturesCreated + 1
    /\ op' = Op("updateImageOk", (IF isRunning THEN 1 ELSE 0)
                                   + (IF pendingImage[i] THEN 2 ELSE 0), {})
    /\ Untrack
    /\ UNCHANGED <<ctor, config, now, speed, angle, isRunning, animationId,
                   lastFrameTime, fps, device, context, canvas, scheduled,
                   configuredWith, pendingCanvas, engineVars>>

\* loadImageBitmap resolved: the texture is created and swapped in.
UpdateImageOk(i) ==
    /\ ctor = "ok"
    /\ i \in 1..Len(pendingImage)
    /\ pendingImage' = Resolved(pendingImage, i)
    /\ texturesCreated' = texturesCreated + 1
    /\ texture' = texturesCreated + 1
    /\ angle' = 0
    /\ op' = Op("updateImageOk", (IF isRunning THEN 1 ELSE 0)
                                   + (IF pendingImage[i] THEN 2 ELSE 0), {})
    /\ Untrack
    /\ UNCHANGED <<ctor, config, now, speed, isRunning, animationId,
                   lastFrameTime, fps, device, context, canvas, scheduled,
                   configuredWith, pendingCanvas, engineVars>>

\* A variant that has reset the angle before it awaits the image.
UpdateImageReject_EarlyReset(i) ==
    /\ ctor = "ok"
    /\ i \in 1..Len(pendingImage)
    /\ pendingImage' = Rejected(pendingImage, i)
    /\ angle' = 0
    /\ op' = Op("updateImageReject", 0, {})
    /\ Untrack
    /\ UNCHANGED <<ctor, config, now, speed, isRunning, animationId,
                   lastFrameTime, fps, texture, device, context, canvas,
                   hostVars, pendingCanvas, engineVars>>

\* loadImageBitmap rejected (fetch or decode failed): updateImage rejects.
UpdateImageReject(i) ==
    /\ ctor = "ok"
    /\ i \in 1..Len(pendingImage)
    /\ pendingImage' = Rejected(pendingImage, i)
    /\ op' = Op("updateImageReject", 0, {})
    /\ UNCHANGED <<ctor, config, now, stateVars, hostVars, pendingCanvas,
                   engineVars, histVars>>

\* updateCanvas up to its await of initWebGPU.
UpdateCanvasCall(cv) ==
    /\ Callable
    /\ BagCardinality(pendingCanvas) < MaxCanvasCalls
    /\ pendingCanvas' = pendingCanvas
          (+) SetToBag({[canvas |-> cv, wasRunning |-> isRunning]})
    /\ IF isRunning THEN StopBody
                    ELSE UNCHANGED <<isRunning, scheduled, animationId>>
    /\ op' = Op("updateCanvasCall", 0, {})
    /\ Untrack
    /\ UNCHANGED <<ctor, config, now, speed, angle, lastFrameTime, fps,
                   texture, device, context, canvas, configuredWith,
                   texturesCreated, pendingImage, engineVars>>

\* A variant that schedules the frame and forgets the flag.
UpdateCanvasOk_NoFlag(c) ==
    /\ ctor = "ok"
    /\ BagIn(c, pendingCanvas)
    /\ c.wasRunning => CanSchedule(scheduled)
    /\ pendingCanvas' = pendingCanvas (-) SetToBag({c})
    /\ configuredWith' = [configuredWith EXCEPT ![c.canvas] = NewDevice(c.canvas)]
    /\ context' = c.canvas
    /\ canvas' = c.canvas
    /\ angle' = 0
    /\ IF c.wasRunning
       THEN /\ animationId' = FreshHandle(scheduled)
            /\ scheduled' = scheduled \cup {FreshHandle(scheduled)}
            /\ UNCHANGED isRunning
       ELSE UNCHANGED <<isRunning, animationId, scheduled>>
    /\ op' = Op("updateCanvasOk", IF c.wasRunning THEN 1 ELSE 0, {})
    /\ Untrack
    /\ UNCHANGED <<ctor, config, now, speed, lastFrameTime, fps, texture,
                   device, texturesCreated, pendingImage, engineVars>>

\* A variant that resumes the loop whether or not it ran before the call.
UpdateCanvasOk_AlwaysResumes(c) ==
    /\ ctor = "ok"
    /\ BagIn(c, pendingCanvas)
    /\ CanSchedule(scheduled)
    /\ pendingCanvas' = pendingCanvas (-) SetToBag({c})
    /\ configuredWith' = [configuredWith EXCEPT ![c.canvas] = NewDevice(c.canvas)]
    /\ context' = c.canvas
    /\ canvas' = c.canvas
    /\ angle' = 0
    /\ isRunning' = TRUE
    /\ animationId' = FreshHandle(scheduled)
    /\ scheduled' = scheduled \cup {FreshHandle(scheduled)}
    /\ op' = Op("updateCanvasOk", IF c.wasRunning THEN 1 ELSE 0, {})
    /\ Untrack
    /\ UNCHANGED <<ctor, config, now, speed, lastFrameTime, fps, texture,
                   device, texturesCreated, pendingImage, engineVars>>

\* initWebGPU returned Ok: the context is rebound and the loop resumed.
UpdateCanvasOk(c) ==
    /\ ctor = "ok"
    /\ BagIn(c, pendingCanvas)
    /\ c.wasRunning => CanSchedule(scheduled)
    /\ pendingCanvas' = pendingCanvas (-) SetToBag({c})
    /\ configuredWith' = [configuredWith EXCEPT ![c.canvas] = NewDevice(c.canvas)]
    /\ context' = c.canvas
    /\ canvas' = c.canvas
    /\ angle' = 0
    /\ IF c.wasRunning
       THEN /\ isRunning' = TRUE
            /\ animationId' = FreshHandle(scheduled)
            /\ scheduled' = scheduled \cup {FreshHandle(scheduled)}
       ELSE UNCHANGED <<isRunning, animationId, scheduled>>
    /\ op' = Op("updateCanvasOk", IF c.wasRunning THEN 1 ELSE 0, {})
    /\ Untrack
    /\ UNCHANGED <<ctor, config, now, speed, lastFrameTime, fps, texture,
                   device, texturesCreated, pendingImage, engineVars>>

\* A variant that resumes the loop before it throws.
UpdateCanvasReject_Resumes(c) ==
    /\ ctor = "ok"
    /\ BagIn(c, pendingCanvas)
    /\ c.wasRunning => CanSchedule(scheduled)
    /\ pendingCanvas' = pendingCanvas (-) SetToBag({c})
    /\ IF c.wasRunning
       THEN /\ isRunning' = TRUE
            /\ animationId' = FreshHandle(scheduled)
            /\ scheduled' = scheduled \cup {FreshHandle(scheduled)}
       ELSE UNCHANGED <<isRunning, animationId, scheduled>>
    /\ op' = Op("updateCanvasReject", IF c.wasRunning THEN 1 ELSE 0, {})
    /\ UNCHANGED <<ctor, config, now, speed, angle, lastFrameTime, fps,
                   texture, device, context, canvas, configuredWith,
                   texturesCreated, pendingImage, engineVars, histVars>>

\* initWebGPU returned Err: updateCanvas throws.
UpdateCanvasReject(c) ==
    /\ ctor = "ok"
    /\ BagIn(c, pendingCanvas)
    /\ pendingCanvas' = pendingCanvas (-) SetToBag({c})
    /\ op' = Op("updateCanvasReject", IF c.wasRunning THEN 1 ELSE 0, {})
    /\ UNCHANGED <<ctor, config, now, stateVars, hostVars, pendingImage,
                   engineVars, histVars>>

----------------------------------------------------------------------------
\* The facade.

PresentationEvents ==
    [kind : {"changeSpeed"}, arg : SpeedDeltas]
      \cup [kind : {"nextImg", "prevImg"}, arg : {0}]
      \cup [kind : {"changeFPS"}, arg : {30}]

\* installPresentation: the module is recorded and handed dispatchEvent.
InstallPresentation ==
    /\ config.owner = "engine"
    /\ installed < MaxSources
    /\ installed' = installed + 1
    /\ op' = Op("installPresentation", installed + 1, {})
    /\ UNCHANGED <<ctor, config, now, stateVars, hostVars, pendingImage,
                   pendingCanvas, engineSpeed, snapshot, events, histVars>>

\* A variant that hands out engineState itself.
GetEngineState_Live ==
    /\ config.owner = "engine"
    /\ snapshot = NoSnapshot
    /\ snapshot' = [ref |-> "engine", speed |-> 0]
    /\ op' = Op("getEngineState", 0, {})
    /\ UNCHANGED <<ctor, config, now, stateVars, hostVars, pendingImage,
                   pendingCanvas, engineSpeed, installed, events, histVars>>

\* getEngineState: the spread builds a new object with the fields of
\* engineState as they are now.
GetEngineState ==
    /\ config.owner = "engine"
    /\ snapshot = NoSnapshot
    /\ snapshot' = [ref |-> "copy", speed |-> engineSpeed]
    /\ op' = Op("getEngineState", 0, {})
    /\ UNCHANGED <<ctor, config, now, stateVars, hostVars, pendingImage,
                   pendingCanvas, engineSpeed, installed, events, histVars>>

\* What the caller reads from the object it holds.
SnapshotSpeed ==
    IF snapshot.ref = "engine" THEN engineSpeed ELSE snapshot.speed

\* The caller assigns to the speed field of the object it holds: the write
\* lands in the object the reference points to.
MutateSnapshot(v) ==
    /\ config.owner = "engine"
    /\ snapshot.ref # "none"
    /\ SnapshotSpeed # v
    /\ IF snapshot.ref = "engine"
         THEN engineSpeed' = v /\ UNCHANGED snapshot
         ELSE snapshot' = [snapshot EXCEPT !.speed = v]
                /\ UNCHANGED engineSpeed
    /\ op' = Op("mutateSnapshot", v, {})
    /\ UNCHANGED <<ctor, config, now, stateVars, hostVars, pendingImage,
                   pendingCanvas, installed, events, histVars>>

\* A variant whose changeFPS case falls through to changeSpeed.
DispatchEvent_FpsAsSpeed(src, ev) ==
    /\ config.owner = "engine"
    /\ src \in 1..installed
    /\ Len(events) < MaxEvents
    /\ engineSpeed' = (IF ev.kind \in {"changeSpeed", "changeFPS"}
                       THEN engineSpeed + ev.arg
                       ELSE engineSpeed)
    /\ events' = Append(events, ev)
    /\ op' = Op(ev.kind, ev.arg, {})
    /\ UNCHANGED <<ctor, config, now, stateVars, hostVars, pendingImage,
                   pendingCanvas, installed, snapshot, histVars>>

\* A variant that stores the payload instead of adding it.
DispatchEvent_Absolute(src, ev) ==
    /\ config.owner = "engine"
    /\ src \in 1..installed
    /\ Len(events) < MaxEvents
    /\ engineSpeed' = (IF ev.kind = "changeSpeed" THEN ev.arg
                                                  ELSE engineSpeed)
    /\ events' = Append(events, ev)
    /\ op' = Op(ev.kind, ev.arg, {})
    /\ UNCHANGED <<ctor, config, now, stateVars, hostVars, pendingImage,
                   pendingCanvas, installed, snapshot, histVars>>

\* dispatchEvent, called by the installed module src (only installed modules
\* hold the function).  It runs to completion: the switch has no await.
DispatchEvent(src, ev) ==
    /\ config.owner = "engine"
    /\ src \in 1..installed
    /\ Len(events) < MaxEvents
    /\ engineSpeed' = (IF ev.kind = "changeSpeed" THEN engineSpeed + ev.arg
                                                  ELSE engineSpeed)
    /\ events' = Append(events, ev)
    /\ op' = Op(ev.kind, ev.arg, {})
    /\ UNCHANGED <<ctor, config, now, stateVars, hostVars, pendingImage,
                   pendingCanvas, installed, snapshot, histVars>>

----------------------------------------------------------------------------

Next ==
    \/ CreateOk
    \/ \E why \in {"init", "image"} : CreateReject(why)
    \/ \E d \in ClockSteps : AdvanceClock(d)
    \/ \E h \in Handles, fail \in {"none", "acquire", "submit"} : Frame(h, fail)
    \/ \E v \in Speeds : SetSpeed(v)
    \/ Stop
    \/ UpdateImageCall
    \/ \E i \in 1..MaxImageCalls : UpdateImageOk(i)
    \/ \E i \in 1..MaxImageCalls : UpdateImageReject(i)
    \/ \E cv \in NewCanvases : UpdateCanvasCall(cv)
    \/ \E c \in BagToSet(pendingCanvas) : UpdateCanvasOk(c)
    \/ \E c \in BagToSet(pendingCanvas) : UpdateCanvasReject(c)
    \/ InstallPresentation
    \/ GetEngineState
    \/ \E v \in SnapshotWrites : MutateSnapshot(v)
    \/ \E src \in 1..MaxSources, ev \in PresentationEvents :
          DispatchEvent(src, ev)

Spec == Init /\ [][Next]_vars

\* The loop under a caller that keeps calling the controller and a host that
\* keeps running its callbacks: no operation that stays possible is put off
\* for ever.
Fairness ==
    /\ WF_vars(\E h \in Handles, fail \in {"none", "acquire", "submit"} : Frame(h, fail))
    /\ WF_vars(\E v \in Speeds : SetSpeed(v))
    /\ WF_vars(Stop)
    /\ WF_vars(UpdateImageCall)
    /\ WF_vars(\E i \in 1..MaxImageCalls : UpdateImageOk(i))
    /\ WF_vars(\E cv \in NewCanvases : UpdateCanvasCall(cv))
    /\ WF_vars(\E c \in BagToSet(pendingCanvas) : UpdateCanvasOk(c))

FairSpec == Spec /\ Fairness

----------------------------------------------------------------------------
\* Properties.

\* The angle the frame ticks of l add up to, the first delta counted from t0.
RECURSIVE Integral(_, _)
Integral(l, t0) ==
    IF l = <<>> THEN 0
    ELSE LET n == Len(l)
             prev == IF n = 1 THEN t0 ELSE l[n - 1].now
         IN Integral(SubSeq(l, 1, n - 1), t0) + l[n].speed * (l[n].now - prev)

\* Every tick so far ran at 300 degrees/second, 1000 ms after the one before.
Scenario300 ==
    /\ tracked
    /\ \A i \in 1..Len(log) :
          log[i].speed = 300 /\ log[i].now = startTime + 1000 * i

\* C1: after stop() no frame callback does GPU work (no uniform-buffer write,
\* no draw pass, no submission) and isRunning() returns false: stop() leaves
\* the controller not running, and no step taken while it is not running
\* records GPU work of a frame.
C1_NoGpuWorkAfterStop ==
    /\ [](op.name = "stop" => ~IsRunning)
    /\ [][~isRunning => op'.gpu = {}]_vars

\* stop() was called with a frame callback pending, and cancelled it.
C1_Witness == op.name = "stop" /\ op.arg = 1 /\ ~IsRunning /\ scheduled = {}

\* C2: while only frame ticks and setSpeed calls have run since construction,
\* the angle is the sum over the ticks of (speed at the tick) * (the tick's
\* delta), not reduced modulo 360 degrees; at 300 degrees/second and 1000 ms
\* per tick it is 300 degrees per tick (300 after 1 tick, 900 after 3).
C2_AngleIsIntegralOfSpeed ==
    /\ tracked => angle = Integral(log, startTime)
    /\ Scenario300 => angle = 300 * 1000 * Len(log)

\* Three ticks of 1000 ms at speed 300: 900 degrees.
C2_Witness == Scenario300 /\ Len(log) = 3 /\ angle = 900 * 1000

\* C3: a changeSpeed event with payload d dispatched through the facade
\* raises the speed of the controller by exactly d.
C3_DispatchRaisesControllerSpeed ==
    [][ctor = "ok" /\ op'.name = "changeSpeed" => speed' = speed + op'.arg]_vars

\* C4: when a successful updateImage or updateCanvas completes, the angle is 0.
C4_AngleZeroAfterReplace ==
    op.name \in {"updateImageOk", "updateCanvasOk"} => angle = 0

\* updateImage completed on a running controller whose frames had advanced.
C4_Witness ==
    /\ op.name = "updateImageOk"
    /\ op.arg = 1
    /\ lastFrameTime > startTime
    /\ angle = 0

\* C5: a successful updateCanvas that was called while Running completes
\* Running with a frame scheduled; one that was called while Stopped leaves
\* the running flag and the scheduled callbacks as they were.
C5_UpdateCanvasResumes ==
    [][op'.name = "updateCanvasOk" =>
          IF op'.arg = 1
          THEN isRunning' /\ animationId' \in scheduled'
          ELSE UNCHANGED <<isRunning, animationId, scheduled>>]_vars

\* updateCanvas, called while Running, has completed and resumed the loop.
C5_Witness ==
    /\ op.name = "updateCanvasOk"
    /\ op.arg = 1
    /\ IsRunning
    /\ animationId \in scheduled
    /\ canvas = 2

\* C6: an updateImage that fails in loadImageBitmap leaves the texture, the
\* angle, the speed and the running flag as they were.
C6_FailedUpdateImageTouchesNothing ==
    [][op'.name = "updateImageReject" =>
          UNCHANGED <<texture, angle, speed, isRunning>>]_vars

\* updateImage was rejected while the quad had turned.
C6_Witness == op.name = "updateImageReject" /\ angle > 0 /\ IsRunning

\* C7: getFps() is never Infinity or NaN.
C7_FpsIsFinite == ctor = "ok" => IsFinite(GetFps)

\* C8: after a frame body throws, isRunning() is false and no frame is
\* scheduled.
C8_FrameFailureStopsLoop ==
    op.name = "frameThrow" => ~IsRunning /\ scheduled = {}

\* C9: once stop() has stopped the controller, public operations bring it
\* back to Running with a frame scheduled.  (Stated for a caller that keeps
\* calling every operation of the controller: see Fairness.)
C9_RestartableAfterStop ==
    [](op.name = "stop" => <>(isRunning /\ scheduled # {}))

\* C10: stop() leaves the controller Stopped with no frame scheduled from
\* whatever state it is called in, and a stop() that follows a stop() changes
\* nothing (angle, speed, fps, texture and the rest of the state).
C10_StopIdempotent ==
    /\ [](op.name = "stop" =>
             ~IsRunning /\ animationId = Null /\ scheduled = {})
    /\ [][op'.name = "stop" /\ op'.arg = 2 =>
             UNCHANGED <<stateVars, hostVars, pendingImage, pendingCanvas>>]_vars

\* stop() has been called twice in a row.
C10_Witness == op.name = "stop" /\ op.arg = 2 /\ ~IsRunning

\* C11: when construction fails (initWebGPU returns Err, or the first image
\* does not load) createGPURenderer rejects and the loop never runs: the
\* promise stays rejected, nothing is running or scheduled, and no operation
\* of a controller ever changes the state.
C11_FailedConstructionNeverRuns ==
    /\ [](ctor = "rejected" =>
             ~isRunning /\ animationId = Null /\ scheduled = {})
    /\ [][ctor = "rejected" =>
             ctor' = "rejected" /\ UNCHANGED <<stateVars, hostVars>>]_vars

\* Construction failed on the image, after the canvas was configured, and
\* time has passed since.
C11_Witness ==
    /\ ctor = "rejected"
    /\ configuredWith[1] = 1
    /\ now > 0
    /\ scheduled = {}

\* The sum of the payloads of the changeSpeed events of evs.
RECURSIVE SumOfChangeSpeed(_)
SumOfChangeSpeed(evs) ==
    IF evs = <<>> THEN 0
    ELSE (IF Head(evs).kind = "changeSpeed" THEN Head(evs).arg ELSE 0)
           + SumOfChangeSpeed(Tail(evs))

\* C12: whatever the number of installed sources and the order of their
\* dispatch calls, the speed of the facade is 300 plus the sum of the payloads
\* of all changeSpeed events dispatched so far: none lost, none applied twice.
C12_SpeedIsInitialPlusDeltas ==
    engineSpeed = EngineInitialSpeed + SumOfChangeSpeed(events)

\* Two sources are installed and two changeSpeed events went through, -10
\* and then +10.
C12_Witness ==
    /\ installed = 2
    /\ Len(events) = 2
    /\ events[1].arg = -10 /\ events[2].arg = 10
    /\ engineSpeed = 300

\* C13: dispatching nextImg, prevImg or changeFPS changes nothing: the speed
\* of the facade, the state of the controller and the host's GPU and
\* scheduling state are what they were before the call.
C13_OtherEventsAreNoOps ==
    [][op'.name \in {"nextImg", "prevImg", "changeFPS"} =>
         UNCHANGED <<engineSpeed, installed, ctor, stateVars, hostVars,
                     pendingImage, pendingCanvas>>]_vars

\* A changeFPS event was dispatched to a facade whose controller is running
\* and whose speed had already been changed.
C13_Witness ==
    /\ op.name = "changeFPS"
    /\ ctor = "ok" /\ isRunning
    /\ engineSpeed = 310

\* C14: getEngineState() returns a copy.  A step that dispatches nothing, a
\* write to the returned object among them, leaves the speed of the facade
\* alone, and a dispatch leaves alone what the caller reads from an object it
\* got earlier.
C14_GetEngineStateIsSnapshot ==
    /\ [][snapshot.ref # "none" /\ events' = events =>
             engineSpeed' = engineSpeed]_vars
    /\ [][snapshot.ref # "none" /\ events' # events =>
             SnapshotSpeed' = SnapshotSpeed]_vars

\* A snapshot was taken at 310, the facade has moved on to 320 and the caller
\* has then overwritten its snapshot.
C14_Witness ==
    /\ op.name = "mutateSnapshot"
    /\ snapshot = [ref |-> "copy", speed |-> 0]
    /\ engineSpeed = 320
    /\ Len(events) = 2

\* C15: a controller that is not running has no frame callback scheduled and
\* a null animationId, and no step that leaves it not running writes
\* lastFrameTime.
C15_StoppedMeansNothingScheduled ==
    /\ [](~isRunning => animationId = Null /\ scheduled = {})
    /\ [][~isRunning /\ ~isRunning' => lastFrameTime' = lastFrameTime]_vars

\* The controller was stopped with a callback pending and time has passed
\* since its last frame.
C15_Witness ==
    /\ ctor = "ok" /\ ~isRunning
    /\ pendingCanvas = EmptyBag
    /\ now > lastFrameTime
    /\ lastFrameTime > startTime
    /\ op.name = "clock"

\* C16: whenever the loop enters Running, at construction and when
\* updateCanvas resumes it, lastFrameTime is the current time, so the first
\* frame's delta does not count time spent stopped.
C16_LoopEntryRecordsTime ==
    (op.name = "create" \/ (op.name = "updateCanvasOk" /\ op.arg = 1))
        => lastFrameTime = now

\* C17: no frame body executes while an updateCanvas call is between its
\* invocation and its completion, a second overlapping call included.
C17_NoFrameDuringUpdateCanvas ==
    [][op'.name \in {"frame", "frameThrow"} /\ op'.gpu # {} =>
         pendingCanvas = EmptyBag]_vars

\* C18: exactly one texture is live (created and not released) at every
\* moment of a constructed controller, after any number of updateImage calls.
C18_OneLiveTexture ==
    ctor = "ok" => Cardinality(LiveTextures) = 1

\* C20: a stop() issued while an updateCanvas call that began while Running
\* is suspended is honoured: when that call completes right after the stop(),
\* the controller is still stopped and nothing is scheduled.
C20_StopDuringUpdateCanvasHonoured ==
    [][op.name = "stop" /\ op'.name = "updateCanvasOk" /\ op'.arg = 1 =>
         ~isRunning' /\ scheduled' = {}]_vars

\* C19: with overlapping updateImage calls, every call that resolves makes
\* the texture it has just created the current one, whether or not a call
\* issued after it resolved first, so the last to resolve wins; no other step
\* changes the current texture, so frames draw the previous one until then;
\* and the texture never changes without the angle being 0 in the same step.
C19_LastResolvedImageWins ==
    /\ [][op'.name = "updateImageOk" =>
             /\ texturesCreated' = texturesCreated + 1
             /\ texture' = texturesCreated'
             /\ angle' = 0]_vars
    /\ [][ctor = "ok" /\ op'.name # "updateImageOk" =>
             texture' = texture]_vars
    /\ [][ctor = "ok" /\ texture' # texture => angle' = 0]_vars

\* Two calls overlapped while the loop ran; the one issued last resolved
\* first, and the one issued first has now resolved and holds the texture.
C19_Witness ==
    /\ op.name = "updateImageOk"
    /\ op.arg = 3
    /\ pendingImage = <<>>
    /\ texture = 3
    /\ angle = 0

\* C21: all GPU objects a frame uses belong to one device: the context the
\* controller draws into was configured with state.device, the device that
\* owns the pipeline, the texture and the buffers.
C21_ContextConfiguredWithStateDevice ==
    ctor = "ok" => configuredWith[context] = device

\* C22: at most one frame callback is scheduled, and when one is, the loop is
\* running and animationId holds its handle: construction, frames, stop,
\* updateImage and overlapping updateCanvas calls never leave two loops.
C22_OneFrameLoop ==
    /\ Cardinality(scheduled) <= 1
    /\ scheduled # {} => isRunning /\ scheduled = {animationId}

\* Two updateCanvas calls overlapped: the one made while running resumed the
\* loop, and the one made while it was stopped has completed after it.
C22_Witness ==
    /\ op.name = "updateCanvasOk"
    /\ op.arg = 0
    /\ pendingCanvas = EmptyBag
    /\ isRunning
    /\ Cardinality(scheduled) = 1

\* C23: when the initWebGPU of an updateCanvas call made while running fails,
\* the call rejects and changes nothing: context, canvas and angle are what
\* they were, and the controller is stopped with no frame scheduled.
C23_FailedUpdateCanvasLeavesStopped ==
    [][op'.name = "updateCanvasReject" /\ op'.arg = 1 =>
         /\ UNCHANGED <<context, canvas, angle, configuredWith>>
         /\ ~isRunning'
         /\ animationId' = Null
         /\ scheduled' = {}]_vars

\* updateCanvas was called on a running controller whose angle had advanced
\* and has rejected.
C23_Witness ==
    /\ op.name = "updateCanvasReject"
    /\ op.arg = 1
    /\ angle > 0
    /\ canvas = 1
    /\ ~isRunning
    /\ pendingCanvas = EmptyBag

====
